---- MODULE Spec2Model ----
(***************************************************************************)
(* Habit Tracker: the SQLite store (database.py), the Habit object         *)
(* (main.py) and the functional analytics (analytics.py).                  *)
(*                                                                         *)
(* Time.  A datetime is an integer instant counted in slots; a day has     *)
(* SlotsPerDay slots and day 0 is a Monday, so                             *)
(*   date(t)    = t \div SlotsPerDay      (a day number, datetime.date())  *)
(*   weekday(t) = date(t) % 7             (0 = Monday, datetime.weekday()) *)
(* A timedelta(days=k) is k * SlotsPerDay slots on an instant and k on a   *)
(* date.                                                                   *)
(*                                                                         *)
(* Store.  habits and completions are the two tables in row order;         *)
(* habits_seq is the habits row of sqlite_sequence (AUTOINCREMENT).  The   *)
(* connection never issues PRAGMA foreign_keys, so SQLite leaves foreign   *)
(* key enforcement at its default, off: see foreign_keys.  The columns     *)
(* no operation reads back (habits.creation_date, completions.id) are      *)
(* left out.  Stored completions are never later than now: every caller    *)
(* passes now or an earlier instant.                                       *)
(*                                                                         *)
(* Calls.  result is the value the last call returned: NoResult after a    *)
(* call that returns nothing, the new id after add_habit, and after a      *)
(* query a record of the query, its argument, the instant it ran at and    *)
(* the value it returned.                                                  *)
(*                                                                         *)
(* Specifications.                                                         *)
(*   Spec        the store's life cycle from an empty database at a fixed  *)
(*               instant: habits are added and deleted, completions are    *)
(*               recorded at the current instant, the clock ticks.         *)
(*   SpecStreak  one habit and its completion history, from an empty       *)
(*               database at any instant of one week: completions are      *)
(*               back-dated by whole days, as the tests do.                *)
(*   SpecFixture one session of the interactive menu on the default        *)
(*               database that Database() builds on an empty file.         *)
(*   SpecCli     the add command and the menu on the default database.     *)
(*   SpecQuery   the analytics queries between adds, deletes and           *)
(*               completions.                                              *)
(*   SpecBest    longest_streak_all over named daily habits.               *)
(*   SpecHistory one habit of any typed periodicity and its back-dated     *)
(*               history on three days of a week.                          *)
(***************************************************************************)
EXTENDS Integers, Sequences, FiniteSets, TLC

VARIABLES habits, completions, habits_seq, now, result

vars == <<habits, completions, habits_seq, now, result>>

\* The tables and their sequence: what a write may change.
store == <<habits, completions, habits_seq>>

(***************************************************************************)
(* Bounds of the model.                                                    *)
(***************************************************************************)
SlotsPerDay == 2
MaxHabits == 2
MaxPeriodicity == 2
MaxStored == 2
MaxTicks == 2
MaxHistory == 3
MaxDaysBack == 3

(***************************************************************************)
(* Program constants.                                                      *)
(***************************************************************************)
DaysPerWeek == 7
None == -1

\* A call that returns nothing, and the record of one that returns value.
NoResult == [op |-> "none", arg |-> None, at |-> None, value |-> None]

Returned(op, arg, at, value) ==
    [op |-> op, arg |-> arg, at |-> at, value |-> value]

\* sqlite3.connect() followed by no PRAGMA foreign_keys = ON.
foreign_keys == FALSE

Names == {"Read"}
SupportedFrequencies == {"daily", "weekly"}
Frequencies == SupportedFrequencies \cup {"monthly"}
Periodicities == 1..MaxPeriodicity

(***************************************************************************)
(* datetime                                                                *)
(***************************************************************************)
date(t) == t \div SlotsPerDay

\* Faulty variant of weekday: isoweekday(), which counts Monday as 1.
isoweekday(t) == (date(t) % DaysPerWeek) + 1

weekday(t) == date(t) % DaysPerWeek

timedelta(days) == days * SlotsPerDay

\* datetime(now.year, now.month, now.day): midnight of t's day.
midnight(t) == date(t) * SlotsPerDay

\* The stored text of an instant: its date part and its time part.
isoformat(t) == <<t \div SlotsPerDay, t % SlotsPerDay>>

fromisoformat(s) == s[1] * SlotsPerDay + s[2]

(***************************************************************************)
(* The instants the specifications start at.  StartWeek leaves room for    *)
(* the back-dated history below it.                                        *)
(***************************************************************************)
StartWeek == 4

StartNow == timedelta(DaysPerWeek * StartWeek)

StartInstants == {StartNow + k : k \in 0..(timedelta(DaysPerWeek) - 1)}

HistoryOffsets == (0..MaxDaysBack) \cup {DaysPerWeek, 2 * DaysPerWeek}

(***************************************************************************)
(* Database: reads                                                         *)
(***************************************************************************)
\* [datetime.fromisoformat(row['completion_date']) for row in rows]
MapIso(rows) ==
    [i \in DOMAIN rows |-> fromisoformat(rows[i].completion_date)]

HasHabitId(row, habit_id) == row.habit_id = habit_id

load_completions(habit_id) ==
    MapIso(SelectSeq(completions, LAMBDA row : HasHabitId(row, habit_id)))

load_habits == habits

\* next((h for h in load_habits() if h['id'] == habit_id), None)
HabitIndex(habit_id) ==
    IF \E i \in DOMAIN habits : habits[i].id = habit_id
    THEN CHOOSE i \in DOMAIN habits :
            /\ habits[i].id = habit_id
            /\ \A j \in DOMAIN habits : habits[j].id = habit_id => i <= j
    ELSE 0

(***************************************************************************)
(* Python built-ins used by the engine                                     *)
(***************************************************************************)
max(a, b) == IF a >= b THEN a ELSE b

\* sorted(list): ascending, duplicates kept.
sorted(s) == SortSeq(s, LAMBDA a, b : a < b)

\* sorted(generator over a dict's keys): the keys in ascending order.
RECURSIVE sorted_keys(_)
sorted_keys(S) ==
    IF S = {} THEN <<>>
    ELSE LET m == CHOOSE x \in S : \A y \in S : x <= y
         IN  <<m>> \o sorted_keys(S \ {m})

\* x in list
contains(s, x) == \E i \in DOMAIN s : s[i] = x

\* set(list)
set(s) == {s[i] : i \in DOMAIN s}

\* Faulty variant of times: a key is marked, not counted.
once(keys, k) == IF contains(keys, k) THEN 1 ELSE 0

\* How many times a loop over keys comes to the key k.
times(keys, k) == Cardinality({i \in DOMAIN keys : keys[i] = k})

\* for k in keys: d[k] = d.get(k, 0) + 1
count_keys(keys, d) ==
    [k \in DOMAIN d \cup set(keys) |->
        (IF k \in DOMAIN d THEN d[k] ELSE 0) + times(keys, k)]

(***************************************************************************)
(* Database.get_streaks                                                    *)
(***************************************************************************)
\* days[d] = days.get(d, 0) + 1 for d = c.date()
count_days(cs, days) == count_keys([i \in DOMAIN cs |-> date(cs[i])], days)

\* weeks[monday] = weeks.get(monday, 0) + 1 for monday = c.date() - weekday
count_weeks(cs, weeks) ==
    count_keys([i \in DOMAIN cs |-> date(cs[i]) - weekday(cs[i])], weeks)

\* Faulty variant of meets: the threshold must be met exactly.
meets_exactly(count, periodicity) == count = periodicity

\* Faulty variant of meets: the threshold must be exceeded.
meets_strictly(count, periodicity) == count > periodicity

meets(count, periodicity) == count >= periodicity

valid_days(cs, periodicity) ==
    LET days == count_days(cs, <<>>)
    IN  sorted_keys({d \in DOMAIN days : meets(days[d], periodicity)})

valid_weeks(cs, periodicity) ==
    LET weeks == count_weeks(cs, <<>>)
    IN  sorted_keys({w \in DOMAIN weeks : meets(weeks[w], periodicity)})

\* Faulty variant of walk_back: a walk that finds the starting period
\* missing starts from the period before it.
RECURSIVE walk_back_from_last(_, _, _, _)
walk_back_from_last(day, valid, step, current_streak) ==
    IF contains(valid, day)
    THEN walk_back_from_last(day - step, valid, step, current_streak + 1)
    ELSE IF current_streak = 0 /\ contains(valid, day - step)
    THEN walk_back_from_last(day - step, valid, step, 0)
    ELSE current_streak

\* while day in valid: current_streak += 1; day -= timedelta(days=step)
RECURSIVE walk_back(_, _, _, _)
walk_back(day, valid, step, current_streak) ==
    IF contains(valid, day)
    THEN walk_back(day - step, valid, step, current_streak + 1)
    ELSE current_streak

\* Faulty variant of follows: prev is never assigned, so stays None.
follows_unset(valid, i, step) == FALSE

\* Faulty variant of follows: a later period extends the run too.
follows_or_later(valid, i, step) == i > 1 /\ valid[i] - valid[i - 1] >= step

\* prev and (d - prev).days == step: a date is always true, None never.
follows(valid, i, step) == i > 1 /\ valid[i] - valid[i - 1] = step

\* Faulty variant of scan_runs: the longest streak is never below 1.
RECURSIVE scan_runs_from_one(_, _, _, _, _)
scan_runs_from_one(valid, i, step, streak, longest_streak) ==
    IF i > Len(valid) THEN max(longest_streak, 1)
    ELSE LET s == IF follows(valid, i, step) THEN streak + 1 ELSE 1
         IN  scan_runs_from_one(valid, i + 1, step, s, max(longest_streak, s))

\* for d in valid: streak = streak + 1 or 1; longest = max(longest, streak)
RECURSIVE scan_runs(_, _, _, _, _)
scan_runs(valid, i, step, streak, longest_streak) ==
    IF i > Len(valid) THEN longest_streak
    ELSE LET s == IF follows(valid, i, step) THEN streak + 1 ELSE 1
         IN  scan_runs(valid, i + 1, step, s, max(longest_streak, s))

\* get_streaks on the list load_completions returned.
get_streaks_from(habit_id, loaded) ==
    LET cs == sorted(loaded)
        i == HabitIndex(habit_id)
        none == [current_streak |-> 0, longest_streak |-> 0]
    IN  IF cs = <<>> THEN none
        ELSE IF i = 0 THEN none
        ELSE LET freq == habits[i].frequency
                 periodicity == habits[i].periodicity
             IN  IF freq = "daily"
                 THEN LET v == valid_days(cs, periodicity)
                      IN  [current_streak |-> walk_back(date(now), v, 1, 0),
                           longest_streak |-> scan_runs(v, 1, 1, 0, 0)]
                 ELSE IF freq = "weekly"
                 THEN LET v == valid_weeks(cs, periodicity)
                      IN  [current_streak |->
                              walk_back(date(now) - weekday(now), v,
                                        DaysPerWeek, 0),
                           longest_streak |->
                              scan_runs(v, 1, DaysPerWeek, 0, 0)]
                 ELSE none

get_streaks(habit_id) ==
    get_streaks_from(habit_id, load_completions(habit_id))

(***************************************************************************)
(* analytics.longest_streak_for_habit_fp                                   *)
(***************************************************************************)
\* Faulty variant of period_key: the date whatever the frequency.
day_key(freq, c) == date(c)

\* c.date() if freq == 'daily' else c.date() - timedelta(days=c.weekday())
period_key(freq, c) ==
    IF freq = "daily" THEN date(c) ELSE date(c) - weekday(c)

count_buckets(freq, cs, buckets) ==
    count_keys([i \in DOMAIN cs |-> period_key(freq, cs[i])], buckets)

valid_periods(freq, periodicity, cs) ==
    LET buckets == count_buckets(freq, cs, <<>>)
    IN  sorted_keys({k \in DOMAIN buckets : buckets[k] >= periodicity})

\* Faulty variant of expected: one day whatever the frequency.
expected_daily(freq) == 1

\* expected = 1 if freq == 'daily' else 7
expected(freq) == IF freq = "daily" THEN 1 ELSE DaysPerWeek

RECURSIVE scan_periods(_, _, _, _, _)
scan_periods(valid, i, freq, streak, longest) ==
    IF i > Len(valid) THEN longest
    ELSE LET s == IF i > 1 /\ valid[i] - valid[i - 1] = expected(freq)
                  THEN streak + 1 ELSE 1
         IN  scan_periods(valid, i + 1, freq, s, max(longest, s))

longest_streak_for_habit_fp(habit, cs) ==
    IF cs = <<>> THEN 0
    ELSE LET v == valid_periods(habit.frequency, habit.periodicity, cs)
         IN  IF v = <<>> THEN 0
             ELSE scan_periods(v, 1, habit.frequency, 0, 0)

(***************************************************************************)
(* Database.period_summary and completions_in_current_period               *)
(***************************************************************************)
\* sum(1 for c in cs if c >= period_start)
count_since(cs, period_start) ==
    Cardinality({i \in DOMAIN cs : cs[i] >= period_start})

\* daily: datetime(now.year, now.month, now.day)
\* else:  now - timedelta(days=now.weekday())
period_start(period) ==
    IF period = "daily" THEN midnight(now)
    ELSE now - timedelta(weekday(now))

\* Faulty variant of summarize: a habit begun but short of its periodicity
\* is counted neither as completed nor as missed.
RECURSIVE summarize_partial_dropped(_, _, _)
summarize_partial_dropped(hs, period, acc) ==
    IF hs = <<>> THEN acc
    ELSE LET habit == Head(hs)
             count == count_since(load_completions(habit.id),
                                  period_start(period))
         IN  summarize_partial_dropped(Tail(hs), period,
                IF count >= habit.periodicity
                THEN [acc EXCEPT !.completed = @ + 1]
                ELSE IF count = 0
                THEN [acc EXCEPT !.missed = @ + 1]
                ELSE acc)

\* The loop of period_summary over the rows hs.
RECURSIVE summarize(_, _, _)
summarize(hs, period, acc) ==
    IF hs = <<>> THEN acc
    ELSE LET habit == Head(hs)
             count == count_since(load_completions(habit.id),
                                  period_start(period))
         IN  summarize(Tail(hs), period,
                       IF count >= habit.periodicity
                       THEN [acc EXCEPT !.completed = @ + 1]
                       ELSE [acc EXCEPT !.missed = @ + 1])

HasFrequency(row, freq) == row.frequency = freq

\* Faulty variant of period_summary: only the habits of the requested
\* frequency are summarized (load_habits(period)).
period_summary_by_frequency(period) ==
    summarize(SelectSeq(load_habits, LAMBDA row : HasFrequency(row, period)),
              period, [completed |-> 0, missed |-> 0])

period_summary(period) ==
    summarize(load_habits, period, [completed |-> 0, missed |-> 0])

completions_in_current_period(habit_id) ==
    LET i == HabitIndex(habit_id)
    IN  IF i = 0 THEN 0
        ELSE LET cs == load_completions(habit_id)
                 freq == habits[i].frequency
             IN  IF freq = "daily"
                 THEN count_since(cs, midnight(now))
                 ELSE IF freq = "weekly"
                 THEN count_since(cs, now - timedelta(weekday(now)))
                 ELSE 0

(***************************************************************************)
(* Habit (main.py).  A Habit object carries the id, frequency and          *)
(* periodicity of its row (Habit.from_db, or the caller's own copy).       *)
(***************************************************************************)
\* sum(1 for c in cs if lo <= c.date() <= hi)
count_dates(cs, lo, hi) ==
    Cardinality({i \in DOMAIN cs : lo <= date(cs[i]) /\ date(cs[i]) <= hi})

\* Faulty variant of below: one completion too many is let through.
below_or_equal(count, periodicity) == count <= periodicity

below(count, periodicity) == count < periodicity

can_mark_performed(habit) ==
    LET cs == load_completions(habit.id)
    IN  IF habit.frequency = "daily"
        THEN below(count_dates(cs, date(now), date(now)), habit.periodicity)
        ELSE IF habit.frequency = "weekly"
        THEN LET monday == now - timedelta(weekday(now))
                 sunday == monday + timedelta(6)
             IN  below(count_dates(cs, date(monday), date(sunday)),
                       habit.periodicity)
        ELSE FALSE

(***************************************************************************)
(* analytics: recent_completions, recent_completions_fp and                *)
(* longest_streak_all                                                      *)
(***************************************************************************)
min(a, b) == IF a <= b THEN a ELSE b

\* Faulty variant of sorted_reverse: oldest first.
sorted_forward(s) == SortSeq(s, LAMBDA a, b : a < b)

\* sorted(list, reverse=True): descending, duplicates kept.
sorted_reverse(s) == SortSeq(s, LAMBDA a, b : a > b)

\* list[:n]: the first n items, all but the last -n for a negative n.
slice(s, n) ==
    IF n >= 0 THEN SubSeq(s, 1, min(n, Len(s)))
    ELSE SubSeq(s, 1, max(Len(s) + n, 0))

recent_completions_fp(cs, n) == slice(sorted_reverse(cs), n)

recent_completions(habit_id, n) ==
    slice(sorted_reverse(sorted_keys(set(load_completions(habit_id)))), n)

\* Faulty variant of best_of: a longer streak joins the list of the best.
RECURSIVE best_of_joined(_, _, _, _)
best_of_joined(hs, k, best_streak, best_habits) ==
    IF k > Len(hs)
    THEN [habits |-> best_habits, longest_streak |-> best_streak]
    ELSE LET streak == get_streaks(hs[k].id).longest_streak
         IN  IF streak >= best_streak
             THEN best_of_joined(hs, k + 1, streak,
                                 Append(best_habits, hs[k].name))
             ELSE best_of_joined(hs, k + 1, best_streak, best_habits)

\* for h in habits: a longer streak restarts the list, an equal one joins.
RECURSIVE best_of(_, _, _, _)
best_of(hs, k, best_streak, best_habits) ==
    IF k > Len(hs)
    THEN [habits |-> best_habits, longest_streak |-> best_streak]
    ELSE LET streak == get_streaks(hs[k].id).longest_streak
         IN  IF streak > best_streak
             THEN best_of(hs, k + 1, streak, <<hs[k].name>>)
             ELSE IF streak = best_streak
             THEN best_of(hs, k + 1, best_streak,
                          Append(best_habits, hs[k].name))
             ELSE best_of(hs, k + 1, best_streak, best_habits)

longest_streak_all == best_of(load_habits, 1, 0, <<>>)

(***************************************************************************)
(* Database: writes                                                        *)
(***************************************************************************)
add_habit(name, frequency, periodicity) ==
    /\ habits_seq' = habits_seq + 1
    /\ habits' = Append(habits, [id |-> habits_seq + 1, name |-> name,
                                 frequency |-> frequency,
                                 periodicity |-> periodicity])
    /\ result' = Returned("add_habit", None, None, habits_seq + 1)

add_completion(habit_id, completion_date) ==
    LET d == IF completion_date = None THEN now ELSE completion_date
    IN  /\ completions' = Append(completions,
                                 [habit_id |-> habit_id,
                                  completion_date |-> isoformat(d)])
        /\ result' = NoResult

NotHabitId(row, habit_id) == row.id # habit_id

delete_habit(habit_id) ==
    /\ habits' = SelectSeq(habits, LAMBDA row : NotHabitId(row, habit_id))
    /\ completions' =
          IF foreign_keys
          THEN SelectSeq(completions, LAMBDA row : ~HasHabitId(row, habit_id))
          ELSE completions
    /\ result' = NoResult

reset_empty ==
    /\ completions' = <<>>
    /\ habits' = <<>>
    /\ habits_seq' = 0
    /\ result' = NoResult

(***************************************************************************)
(* Database.generate_fixture_data and reset_to_default.  The loop over     *)
(* habits_data is a fold over a database value d, a record of the two      *)
(* tables and the sequence.                                                *)
(***************************************************************************)
habits_data ==
    << [name |-> "Drink Water", frequency |-> "daily", periodicity |-> 3],
       [name |-> "Stretch", frequency |-> "daily", periodicity |-> 1],
       [name |-> "Learn Python", frequency |-> "daily", periodicity |-> 2],
       [name |-> "Grocery Shopping", frequency |-> "weekly",
        periodicity |-> 2],
       [name |-> "Clean Room", frequency |-> "weekly", periodicity |-> 2] >>

FixtureDays == 28
FixtureWeeks == 4

database == [habits |-> habits, completions |-> completions,
             habits_seq |-> habits_seq]

empty_database == [habits |-> <<>>, completions |-> <<>>, habits_seq |-> 0]

\* A fixture loop that records each day or week once.
repeat_once(row, k) == <<row>>

\* for _ in range(periodicity): add_completion(habit_id, day)
repeat(row, k) == [j \in 1..k |-> row]

fixture_range(frequency) ==
    IF frequency = "daily" THEN FixtureDays ELSE FixtureWeeks

\* day = now - timedelta(days=i); week_start likewise from this Monday.
fixture_instant(frequency, i) ==
    IF frequency = "daily"
    THEN now - timedelta(i)
    ELSE now - timedelta(weekday(now) + DaysPerWeek * i)

RECURSIVE fixture_rows(_, _, _)
fixture_rows(habit_id, h, i) ==
    IF i >= fixture_range(h.frequency) THEN <<>>
    ELSE repeat([habit_id |-> habit_id,
                 completion_date |->
                    isoformat(fixture_instant(h.frequency, i))],
                h.periodicity)
         \o fixture_rows(habit_id, h, i + 1)

HasName(d, name) == \E i \in DOMAIN d.habits : d.habits[i].name = name

RECURSIVE generate_from(_, _)
generate_from(k, d) ==
    IF k > Len(habits_data) THEN d
    ELSE LET h == habits_data[k]
             habit_id == d.habits_seq + 1
         IN  IF HasName(d, h.name) THEN generate_from(k + 1, d)
             ELSE generate_from(k + 1,
                     [habits |-> Append(d.habits,
                                    [id |-> habit_id, name |-> h.name,
                                     frequency |-> h.frequency,
                                     periodicity |-> h.periodicity]),
                      completions |->
                          d.completions \o fixture_rows(habit_id, h, 0),
                      habits_seq |-> habit_id])

generate_fixture_data(d) == generate_from(1, d)

reset_to_default ==
    LET d == generate_fixture_data(empty_database)
    IN  /\ habits' = d.habits
        /\ completions' = d.completions
        /\ habits_seq' = d.habits_seq
        /\ result' = NoResult

(***************************************************************************)
(* Actions                                                                 *)
(***************************************************************************)
AddHabit(name, frequency, periodicity) ==
    /\ habits_seq < MaxHabits
    /\ add_habit(name, frequency, periodicity)
    /\ UNCHANGED <<completions, now>>

AddCompletion(habit_id, completion_date) ==
    /\ add_completion(habit_id, completion_date)
    /\ UNCHANGED <<habits, habits_seq, now>>

DeleteHabit(habit_id) ==
    /\ delete_habit(habit_id)
    /\ UNCHANGED <<habits_seq, now>>

ResetEmpty ==
    /\ reset_empty
    /\ UNCHANGED now

\* Habit.performed
Performed(habit) ==
    IF can_mark_performed(habit)
    THEN /\ add_completion(habit.id, None)
         /\ UNCHANGED <<habits, habits_seq, now>>
    ELSE /\ result' = NoResult
         /\ UNCHANGED <<store, now>>

Tick ==
    /\ now < StartNow + MaxTicks
    /\ now' = now + 1
    /\ UNCHANGED <<store, result>>

\* The test fixture fresh_db: Database(path) followed by reset_empty().
Init ==
    /\ habits = <<>>
    /\ completions = <<>>
    /\ habits_seq = 0
    /\ now = StartNow
    /\ result = NoResult

Next ==
    \/ \E name \in Names, frequency \in SupportedFrequencies,
          periodicity \in Periodicities :
          AddHabit(name, frequency, periodicity)
    \/ \E habit_id \in 1..MaxHabits :
          /\ Len(completions) < MaxStored
          /\ AddCompletion(habit_id, None)
    \/ \E i \in DOMAIN habits :
          /\ Len(completions) < MaxStored
          /\ Performed(habits[i])
    \/ \E habit_id \in 1..MaxHabits : DeleteHabit(habit_id)
    \/ ResetEmpty
    \/ Tick

Spec == Init /\ [][Next]_vars

InitStreak ==
    /\ habits = <<>>
    /\ completions = <<>>
    /\ habits_seq = 0
    /\ now \in StartInstants
    /\ result = NoResult

NextStreak ==
    \/ \E name \in Names, frequency \in Frequencies,
          periodicity \in Periodicities :
          /\ habits_seq = 0
          /\ AddHabit(name, frequency, periodicity)
    \/ \E days \in HistoryOffsets :
          /\ habits_seq = 1
          /\ Len(completions) < MaxHistory
          /\ AddCompletion(1, now - timedelta(days))
    \/ \E i \in DOMAIN habits :
          /\ Len(completions) < MaxHistory
          /\ Performed(habits[i])

SpecStreak == InitStreak /\ [][NextStreak]_vars

(***************************************************************************)
(* The command-line layer (cli.py) on the default database.  Importing     *)
(* main builds Database(), which creates the default habits that are       *)
(* missing and their completion history.                                   *)
(***************************************************************************)
FixtureCount == Len(habits_data)

\* What a user may type: a habit name new or taken, any integer.
CliNames == {"Read", "Stretch"}
CliPeriodicities == 0..MaxPeriodicity

\* A Monday morning, a Wednesday and a Sunday later in the day.
FixtureInstants ==
    {StartNow, StartNow + timedelta(2) + 1, StartNow + timedelta(6) + 1}

\* Menu entry "Add a new habit"; one habit of the user's at a time.
MenuAdd(name, frequency, periodicity) ==
    /\ habits_seq \in {0, FixtureCount}
    /\ add_habit(name, frequency, periodicity)
    /\ UNCHANGED <<completions, now>>

\* Menu entry "Mark habit as done": Habit.from_db, then performed().
MenuDone(habit_id) ==
    IF HabitIndex(habit_id) = 0
    THEN /\ result' = NoResult
         /\ UNCHANGED <<store, now>>
    ELSE Performed(habits[HabitIndex(habit_id)])

\* Menu entry "Reset to default habits".
ResetToDefault ==
    /\ reset_to_default
    /\ UNCHANGED now

\* The add command, a process of its own: the import of main builds
\* Database(), then the command checks its options and builds a Habit,
\* whose constructor builds Database() once more and stores nothing.
CliAdd(name, frequency, periodicity) ==
    LET d == generate_fixture_data(database)
        habit == [id |-> None, name |-> name, frequency |-> frequency,
                  periodicity |-> periodicity]
    IN  /\ d.habits_seq <= FixtureCount + MaxHabits
        /\ habits' = d.habits
        /\ completions' = d.completions
        /\ habits_seq' = d.habits_seq
        /\ result' = IF HasName(d, name) \/ periodicity < 1
                     THEN NoResult
                     ELSE Returned("add", name, None, habit.id)
        /\ UNCHANGED now

\* Database() on an empty file.
InitFixture ==
    LET d == generate_fixture_data(empty_database)
    IN  /\ now \in FixtureInstants
        /\ habits = d.habits
        /\ completions = d.completions
        /\ habits_seq = d.habits_seq
        /\ result = NoResult

\* One session of the interactive menu.
NextFixture ==
    \/ \E name \in CliNames, frequency \in SupportedFrequencies,
          periodicity \in CliPeriodicities :
          MenuAdd(name, frequency, periodicity)
    \/ \E habit_id \in 1..(FixtureCount + 1) : MenuDone(habit_id)
    \/ \E habit_id \in 1..(FixtureCount + 1) : DeleteHabit(habit_id)
    \/ ResetToDefault
    \/ ResetEmpty

SpecFixture == InitFixture /\ [][NextFixture]_vars

\* The menu and the add command, one after the other on one file.
InitCli == InitFixture /\ now = StartNow

NextCli ==
    \/ \E name \in CliNames, frequency \in SupportedFrequencies,
          periodicity \in CliPeriodicities :
          CliAdd(name, frequency, periodicity)
    \/ \E name \in CliNames, frequency \in SupportedFrequencies,
          periodicity \in CliPeriodicities :
          MenuAdd(name, frequency, periodicity)
    \/ \E habit_id \in 1..(FixtureCount + 1) : DeleteHabit(habit_id)

SpecCli == InitCli /\ [][NextCli]_vars

(***************************************************************************)
(* The analytics queries as calls: each records what it returned.          *)
(***************************************************************************)
Query(op, arg, value) ==
    /\ result' = Returned(op, arg, now, value)
    /\ UNCHANGED <<store, now>>

GetStreaks(habit_id) == Query("get_streaks", habit_id, get_streaks(habit_id))

PeriodSummary(period) ==
    Query("period_summary", period, period_summary(period))

CompletionsInCurrentPeriod(habit_id) ==
    Query("completions_in_current_period", habit_id,
          completions_in_current_period(habit_id))

LoadHabits == Query("load_habits", None, load_habits)

LoadCompletions(habit_id) ==
    Query("load_completions", habit_id, load_completions(habit_id))

\* A faulty can_mark_performed: it asks and marks in one call.
CanMarkPerformedAndMark(habit_id) ==
    LET i == HabitIndex(habit_id)
    IN  /\ i # 0
        /\ result' = Returned("can_mark_performed", habit_id, now,
                              can_mark_performed(habits[i]))
        /\ completions' =
              IF can_mark_performed(habits[i])
              THEN Append(completions,
                          [habit_id |-> habit_id,
                           completion_date |-> isoformat(now)])
              ELSE completions
        /\ UNCHANGED <<habits, habits_seq, now>>

\* Habit.from_db(habit_id).can_mark_performed()
CanMarkPerformed(habit_id) ==
    LET i == HabitIndex(habit_id)
    IN  /\ i # 0
        /\ Query("can_mark_performed", habit_id,
                 can_mark_performed(habits[i]))

LongestStreakAll == Query("longest_streak_all", None, longest_streak_all)

\* A habit is done while completions may still be stored.
Done(habit_id) ==
    /\ Len(completions) < MaxStored
    /\ MenuDone(habit_id)

NextQuery ==
    \/ \E name \in Names, frequency \in SupportedFrequencies,
          periodicity \in Periodicities :
          AddHabit(name, frequency, periodicity)
    \/ \E habit_id \in 1..MaxHabits : Done(habit_id)
    \/ \E habit_id \in 1..MaxHabits : DeleteHabit(habit_id)
    \/ \E habit_id \in 1..MaxHabits : GetStreaks(habit_id)
    \/ \E period \in SupportedFrequencies : PeriodSummary(period)
    \/ \E habit_id \in 1..MaxHabits : CompletionsInCurrentPeriod(habit_id)
    \/ LoadHabits
    \/ \E habit_id \in 1..MaxHabits : LoadCompletions(habit_id)
    \/ \E habit_id \in 1..MaxHabits : CanMarkPerformed(habit_id)
    \/ LongestStreakAll

SpecQuery == Init /\ [][NextQuery]_vars

(***************************************************************************)
(* The analytics overview of named daily habits with a short history of    *)
(* today's and yesterday's completions.                                    *)
(***************************************************************************)
BestOffsets == {0, 1}

NextBest ==
    \/ \E name \in CliNames, periodicity \in Periodicities :
          AddHabit(name, "daily", periodicity)
    \/ \E habit_id \in 1..MaxHabits, days \in BestOffsets :
          /\ Len(completions) < MaxStored
          /\ AddCompletion(habit_id, now - timedelta(days))
    \/ LongestStreakAll

SpecBest == Init /\ [][NextBest]_vars

(***************************************************************************)
(* One habit as the menu may store it and its back-dated history, on a     *)
(* Monday, a Wednesday and a Sunday.                                       *)
(***************************************************************************)
InitHistory ==
    /\ habits = <<>>
    /\ completions = <<>>
    /\ habits_seq = 0
    /\ now \in FixtureInstants
    /\ result = NoResult

NextHistory ==
    \/ \E name \in Names, frequency \in SupportedFrequencies,
          periodicity \in CliPeriodicities :
          /\ habits_seq = 0
          /\ AddHabit(name, frequency, periodicity)
    \/ \E days \in HistoryOffsets :
          /\ habits_seq = 1
          /\ Len(completions) < MaxHistory
          /\ AddCompletion(1, now - timedelta(days))

SpecHistory == InitHistory /\ [][NextHistory]_vars

(***************************************************************************)
(* Reference notions for the properties, stated on the stored rows and on  *)
(* the calendar, not through the engine's own bucketing: a row's day is    *)
(* the date part of its stored text, a week is seven days from a Monday.   *)
(***************************************************************************)
RowsOf(habit_id) ==
    {i \in DOMAIN completions : completions[i].habit_id = habit_id}

DayOf(i) == completions[i].completion_date[1]

Today == now \div SlotsPerDay

\* The index of the period a day lies in: the day, or its week.
PeriodOf(freq, day) == IF freq = "daily" THEN day ELSE day \div DaysPerWeek

\* The key the engine uses for a period: the day, or the week's Monday.
KeyOfPeriod(freq, p) == IF freq = "daily" THEN p ELSE p * DaysPerWeek

Tally(habit_id, freq, p) ==
    Cardinality({i \in RowsOf(habit_id) : PeriodOf(freq, DayOf(i)) = p})

Qualifies(habit, p) ==
    Tally(habit.id, habit.frequency, p) >= habit.periodicity

TouchedPeriods(habit) ==
    {PeriodOf(habit.frequency, DayOf(i)) : i \in RowsOf(habit.id)}

QualifyingPeriods(habit) == {p \in TouchedPeriods(habit) : Qualifies(habit, p)}

CurrentPeriod(freq) == PeriodOf(freq, Today)

\* The lengths of the runs of adjacent qualifying periods, and the longest.
RunLengths(habit) ==
    {n \in 0..Len(completions) :
        \/ n = 0
        \/ \E p \in QualifyingPeriods(habit) :
              \A j \in 0..(n - 1) : Qualifies(habit, p + j)}

LongestRun(habit) ==
    CHOOSE n \in RunLengths(habit) : \A m \in RunLengths(habit) : m <= n

StrictlyAscending(s) == \A i \in 1..(Len(s) - 1) : s[i] < s[i + 1]

Elements(s) == {s[i] : i \in DOMAIN s}

Supported(habit) == habit.frequency \in SupportedFrequencies

(***************************************************************************)
(* C1.  Deleting a habit cascades to its completions: right after          *)
(* delete_habit(h) no stored completion refers to h.                       *)
(***************************************************************************)
DeleteCascades ==
    [][\A habit_id \in 1..MaxHabits :
          DeleteHabit(habit_id) => (RowsOf(habit_id) = {})']_vars

(***************************************************************************)
(* C2.  current_streak is the number of consecutive qualifying periods     *)
(* found walking backward from the period containing now, one period at a  *)
(* time, up to the first period that does not qualify; it is 0 when the    *)
(* period containing now does not qualify.                                 *)
(***************************************************************************)
CurrentStreakIsBackwardWalk ==
    \A i \in DOMAIN habits :
        Supported(habits[i]) /\ habits[i].periodicity >= 1 =>
            LET habit == habits[i]
                k == get_streaks(habit.id).current_streak
                p0 == CurrentPeriod(habit.frequency)
            IN  /\ k \in Nat
                /\ \A j \in 0..(k - 1) : Qualifies(habit, p0 - j)
                /\ ~Qualifies(habit, p0 - k)

\* Days 0, 1 and 3 back qualify, day 2 does not: the walk stops at 2.
CurrentStreakStopsAtGap ==
    \E i \in DOMAIN habits :
        /\ habits[i].frequency = "daily"
        /\ get_streaks(habits[i].id).current_streak = 2
        /\ Qualifies(habits[i], Today - 3)

(***************************************************************************)
(* C3.  For a daily habit longest_streak is the length of the longest run  *)
(* of qualifying days each one calendar day after the previous one: 0      *)
(* with no qualifying day, and the larger run when a gap day splits one.   *)
(***************************************************************************)
DailyLongestIsLongestRun ==
    \A i \in DOMAIN habits :
        habits[i].frequency = "daily" =>
            get_streaks(habits[i].id).longest_streak = LongestRun(habits[i])

\* Three qualifying days, split by a gap into runs of 2 and 1.
DailyRunSplitByGap ==
    \E i \in DOMAIN habits :
        /\ habits[i].frequency = "daily"
        /\ Cardinality(QualifyingPeriods(habits[i])) = 3
        /\ get_streaks(habits[i].id).longest_streak = 2

(***************************************************************************)
(* C4.  For a weekly habit only adjacent calendar weeks (Mondays 7 days    *)
(* apart) extend a streak and a skipped week breaks it, in get_streaks     *)
(* and in longest_streak_for_habit_fp alike.                               *)
(***************************************************************************)
WeeklyLongestIsAdjacentWeeks ==
    \A i \in DOMAIN habits :
        habits[i].frequency = "weekly" =>
            /\ get_streaks(habits[i].id).longest_streak
                  = LongestRun(habits[i])
            /\ longest_streak_for_habit_fp(habits[i],
                                           load_completions(habits[i].id))
                  = LongestRun(habits[i])

\* This week and the week before last qualify, last week does not.
WeeklySkippedWeek ==
    \E i \in DOMAIN habits :
        /\ habits[i].frequency = "weekly"
        /\ QualifyingPeriods(habits[i])
              = {CurrentPeriod("weekly"), CurrentPeriod("weekly") - 2}
        /\ get_streaks(habits[i].id).longest_streak = 1

(***************************************************************************)
(* C5.  The periods the streak computation sees are exactly those whose    *)
(* completion count is at least the periodicity, in ascending order;       *)
(* with periodicity 2 and one completion today both streaks are 0.         *)
(***************************************************************************)
ValidPeriodsAreQualifying ==
    \A i \in DOMAIN habits :
        Supported(habits[i]) =>
            LET habit == habits[i]
                cs == load_completions(habit.id)
                keys == {KeyOfPeriod(habit.frequency, p) :
                            p \in QualifyingPeriods(habit)}
                v == IF habit.frequency = "daily"
                     THEN valid_days(sorted(cs), habit.periodicity)
                     ELSE valid_weeks(sorted(cs), habit.periodicity)
                vp == valid_periods(habit.frequency, habit.periodicity, cs)
            IN  /\ StrictlyAscending(v) /\ Elements(v) = keys
                /\ StrictlyAscending(vp) /\ Elements(vp) = keys
                /\ (keys = {} =>
                      /\ get_streaks(habit.id)
                            = [current_streak |-> 0, longest_streak |-> 0]
                      /\ longest_streak_for_habit_fp(habit, cs) = 0)

\* Periodicity 2: one period holds two completions, another only one.
BelowThresholdPeriodAbsent ==
    \E i \in DOMAIN habits :
        /\ Supported(habits[i])
        /\ habits[i].periodicity = 2
        /\ Cardinality(TouchedPeriods(habits[i])) = 2
        /\ Cardinality(QualifyingPeriods(habits[i])) = 1

(***************************************************************************)
(* C6.  period_summary counts a habit as completed exactly when the        *)
(* number of its completions in the calendar day (daily) or the            *)
(* Monday-to-Sunday week (weekly) containing now is at least its           *)
(* periodicity, and as missed otherwise.                                   *)
(***************************************************************************)
DoneInCalendarPeriod(period) ==
    {i \in DOMAIN habits :
        Tally(habits[i].id, period, CurrentPeriod(period))
            >= habits[i].periodicity}

SummaryCountsCalendarPeriod ==
    \A period \in SupportedFrequencies :
        period_summary(period)
            = [completed |-> Cardinality(DoneInCalendarPeriod(period)),
               missed |-> Len(habits)
                            - Cardinality(DoneInCalendarPeriod(period))]

(***************************************************************************)
(* C7.  For either period argument completed + missed is the number of     *)
(* stored habits.                                                          *)
(***************************************************************************)
SummaryCountsEveryHabitOnce ==
    \A period \in SupportedFrequencies :
        period_summary(period).completed + period_summary(period).missed
            = Len(habits)

\* One habit short of its periodicity beside one that met it.
SummaryHasCompletedAndMissed ==
    \E i, j \in DOMAIN habits :
        /\ i # j
        /\ period_summary("daily") = [completed |-> 1, missed |-> 1]
        /\ RowsOf(habits[i].id) # {}
        /\ RowsOf(habits[j].id) # {}

(***************************************************************************)
(* C8.  period_summary(period) measures every stored habit against the     *)
(* start of the requested period whatever the habit's own frequency: the   *)
(* result does not change with the habits' frequency attributes and no     *)
(* habit is left out.                                                      *)
(***************************************************************************)
WithFrequency(hs, freq) ==
    [i \in DOMAIN hs |-> [hs[i] EXCEPT !.frequency = freq]]

MetSince(period) ==
    {i \in DOMAIN habits :
        Cardinality({r \in RowsOf(habits[i].id) :
                        fromisoformat(completions[r].completion_date)
                            >= period_start(period)})
            >= habits[i].periodicity}

SummaryIgnoresHabitFrequency ==
    \A period \in SupportedFrequencies :
        /\ \A freq \in Frequencies :
              summarize(WithFrequency(habits, freq), period,
                        [completed |-> 0, missed |-> 0])
                 = period_summary(period)
        /\ period_summary(period).completed = Cardinality(MetSince(period))

\* A daily habit done yesterday beside a weekly one: the daily one is
\* missed by the daily summary and completed by the weekly one.
SummaryOfMixedFrequencies ==
    \E i, j \in DOMAIN habits :
        /\ habits[i].frequency = "daily"
        /\ habits[j].frequency = "weekly"
        /\ i \notin MetSince("daily")
        /\ i \in MetSince("weekly")
        /\ j \in MetSince("daily")

(***************************************************************************)
(* C9.  performed() records exactly one completion when fewer than         *)
(* periodicity completions of the habit lie in the current period (today,  *)
(* or the current Monday-to-Sunday week) and nothing otherwise, so a       *)
(* count within the periodicity stays within it, and can_mark_performed()  *)
(* is false once the count has reached the periodicity.                    *)
(***************************************************************************)
InCurrentPeriod(habit) ==
    Tally(habit.id, habit.frequency, CurrentPeriod(habit.frequency))

PerformedEnforcesPeriodicity ==
    /\ [](\A i \in DOMAIN habits :
             Supported(habits[i]) =>
                (can_mark_performed(habits[i])
                    <=> InCurrentPeriod(habits[i]) < habits[i].periodicity))
    /\ [][\A i \in DOMAIN habits :
             Supported(habits[i]) /\ Performed(habits[i]) =>
                /\ IF InCurrentPeriod(habits[i]) < habits[i].periodicity
                   THEN completions' =
                           Append(completions,
                                  [habit_id |-> habits[i].id,
                                   completion_date |->
                                      <<Today, now % SlotsPerDay>>])
                   ELSE completions' = completions
                /\ (InCurrentPeriod(habits[i]) <= habits[i].periodicity
                       => InCurrentPeriod(habits[i])' <= habits[i].periodicity)
         ]_vars

\* A weekly habit of periodicity 2 done on two days of this week.
RefusedAtPeriodicity ==
    \E i \in DOMAIN habits :
        /\ habits[i].frequency = "weekly"
        /\ habits[i].periodicity = 2
        /\ InCurrentPeriod(habits[i]) = 2
        /\ Cardinality({DayOf(r) : r \in RowsOf(habits[i].id)}) = 2
        /\ ~can_mark_performed(habits[i])

(***************************************************************************)
(* C10.  A habit whose frequency is neither daily nor weekly makes the     *)
(* streak engine fail with a configuration error: once it has a            *)
(* completion, get_streaks and longest_streak_for_habit_fp give it no      *)
(* ordinary streak value.                                                  *)
(***************************************************************************)
UnknownFrequencyFailsFast ==
    \A i \in DOMAIN habits :
        ~Supported(habits[i]) /\ RowsOf(habits[i].id) # {} =>
            /\ get_streaks(habits[i].id)
                  \notin [current_streak : Nat, longest_streak : Nat]
            /\ longest_streak_for_habit_fp(
                  habits[i], load_completions(habits[i].id)) \notin Nat

(***************************************************************************)
(* C11.  Every stored habit has periodicity at least 1: no creation path   *)
(* (the add command, the menu's "Add a new habit", the fixture) stores a   *)
(* habit with a periodicity below 1.                                       *)
(***************************************************************************)
StoredPeriodicityAtLeastOne ==
    \A i \in DOMAIN habits : habits[i].periodicity >= 1

(***************************************************************************)
(* C12.  For every habit, whatever its completions, periodicity and the    *)
(* current time, current_streak and longest_streak are integers from 0 up  *)
(* to the number of the habit's qualifying periods.                        *)
(***************************************************************************)
StreaksWithinQualifyingPeriods ==
    \A i \in DOMAIN habits :
        LET s == get_streaks(habits[i].id)
            q == Cardinality(QualifyingPeriods(habits[i]))
        IN  /\ s.current_streak \in 0..q
            /\ s.longest_streak \in 0..q

\* Two qualifying periods that are not adjacent: both streaks are short
\* of the number of qualifying periods.
StreaksBelowQualifyingCount ==
    \E i \in DOMAIN habits :
        LET s == get_streaks(habits[i].id)
        IN  /\ Supported(habits[i])
            /\ Cardinality(QualifyingPeriods(habits[i])) = 2
            /\ s.current_streak = 1
            /\ s.longest_streak = 1

(***************************************************************************)
(* C13.  The weekly key of every timestamp is a Monday, 0 to 6 days on or  *)
(* before the timestamp's date, and two timestamps have the same weekly    *)
(* key exactly when they lie in the same Monday-to-Sunday week; the daily  *)
(* key is the timestamp's date, whatever its time of day.  get_streaks     *)
(* and longest_streak_for_habit_fp bucket by these keys.                   *)
(***************************************************************************)
StoredInstant(i) == fromisoformat(completions[i].completion_date)

WeeklyKeyIsMondayOfWeek ==
    /\ \A i \in DOMAIN completions :
          LET key == period_key("weekly", StoredInstant(i))
          IN  /\ key % DaysPerWeek = 0
              /\ DayOf(i) - key \in 0..(DaysPerWeek - 1)
              /\ period_key("daily", StoredInstant(i)) = DayOf(i)
              /\ \A j \in DOMAIN completions :
                    key = period_key("weekly", StoredInstant(j))
                       <=> DayOf(i) \div DaysPerWeek
                              = DayOf(j) \div DaysPerWeek
    /\ \A h \in DOMAIN habits :
          LET cs == load_completions(habits[h].id)
              rows == RowsOf(habits[h].id)
          IN  /\ DOMAIN count_weeks(cs, <<>>)
                    = {period_key("weekly", StoredInstant(i)) : i \in rows}
              /\ DOMAIN count_days(cs, <<>>) = {DayOf(i) : i \in rows}
              /\ DOMAIN count_buckets("weekly", cs, <<>>)
                    = DOMAIN count_weeks(cs, <<>>)
              /\ DOMAIN count_buckets("daily", cs, <<>>)
                    = DOMAIN count_days(cs, <<>>)

\* Completions on two days of one week, neither a Monday, and one in
\* another week.
TwoDaysOfOneWeekAndAnother ==
    \E i, j, k \in DOMAIN completions :
        /\ DayOf(i) # DayOf(j)
        /\ DayOf(i) % DaysPerWeek # 0
        /\ DayOf(j) % DaysPerWeek # 0
        /\ DayOf(i) \div DaysPerWeek = DayOf(j) \div DaysPerWeek
        /\ DayOf(k) \div DaysPerWeek # DayOf(i) \div DaysPerWeek

(***************************************************************************)
(* C14.  Bucketing drops no timestamp: for any list of completions the     *)
(* per-period counts add up to the number of timestamps, daily and weekly, *)
(* in get_streaks and in longest_streak_for_habit_fp.                      *)
(***************************************************************************)
RECURSIVE SumOfCounts(_)
SumOfCounts(counts) ==
    IF DOMAIN counts = {} THEN 0
    ELSE LET k == CHOOSE x \in DOMAIN counts : TRUE
         IN  counts[k]
                + SumOfCounts([x \in DOMAIN counts \ {k} |-> counts[x]])

BucketingDropsNoTimestamp ==
    \A h \in DOMAIN habits :
        LET cs == load_completions(habits[h].id)
            n == Cardinality(RowsOf(habits[h].id))
        IN  /\ Len(cs) = n
            /\ SumOfCounts(count_days(cs, <<>>)) = n
            /\ SumOfCounts(count_weeks(cs, <<>>)) = n
            /\ SumOfCounts(count_buckets("daily", cs, <<>>)) = n
            /\ SumOfCounts(count_buckets("weekly", cs, <<>>)) = n

\* Two completions on one day and a third on another day of that week.
BucketWithSeveralTimestamps ==
    \E h \in DOMAIN habits :
        LET cs == load_completions(habits[h].id)
            days == count_days(cs, <<>>)
        IN  /\ Len(cs) = 3
            /\ Cardinality(DOMAIN days) = 2
            /\ Cardinality(DOMAIN count_weeks(cs, <<>>)) = 1

(***************************************************************************)
(* C15.  The analytics queries are free of side effects: a call of         *)
(* get_streaks, period_summary, completions_in_current_period,             *)
(* load_habits, load_completions, can_mark_performed or longest_streak_all *)
(* leaves the stored habits and completions as they were, and the same     *)
(* query repeated at the same instant returns what it returned before.     *)
(***************************************************************************)
QueryOps ==
    {"get_streaks", "period_summary", "completions_in_current_period",
     "load_habits", "load_completions", "can_mark_performed",
     "longest_streak_all"}

QueriesLeaveStoreUnchanged ==
    [][result'.op \in QueryOps =>
          /\ habits' = habits
          /\ completions' = completions
          /\ habits_seq' = habits_seq
          /\ (result.op = result'.op /\ result.arg = result'.arg
                 /\ result.at = result'.at
                 => result'.value = result.value)
      ]_vars

\* can_mark_performed has answered no for a stored habit with completions.
QueryAnsweredOnStoredCompletions ==
    /\ result.op = "can_mark_performed"
    /\ result.value = FALSE
    /\ RowsOf(result.arg) # {}
    /\ HabitIndex(result.arg) # 0

(***************************************************************************)
(* C16.  Every stored completion refers to a habit that exists:            *)
(* add_completion stores none for an id without a habit, and no add,       *)
(* delete or reset leaves a completion whose habit is gone.                *)
(***************************************************************************)
CompletionsReferToHabits ==
    \A i \in DOMAIN completions : HabitIndex(completions[i].habit_id) # 0

(***************************************************************************)
(* C17.  Right after reset_to_default, and after Database() on an empty    *)
(* file, the store holds exactly the five default habits; each daily one   *)
(* has completions on the 28 days ending today, each weekly one in the 4   *)
(* weeks ending with the current week, every such period holding exactly   *)
(* periodicity completions; get_streaks reports 28 and 28 for the daily    *)
(* habits, 4 and 4 for the weekly ones.                                    *)
(***************************************************************************)
DefaultHabits ==
    << <<"Drink Water", "daily", 3>>, <<"Stretch", "daily", 1>>,
       <<"Learn Python", "daily", 2>>, <<"Grocery Shopping", "weekly", 2>>,
       <<"Clean Room", "weekly", 2>> >>

HistoryLength(freq) == IF freq = "daily" THEN 28 ELSE 4

DefaultStore ==
    /\ Len(habits) = 5
    /\ \A k \in DOMAIN habits :
          LET h == habits[k]
              n == HistoryLength(h.frequency)
              last == CurrentPeriod(h.frequency)
          IN  /\ <<h.name, h.frequency, h.periodicity>> = DefaultHabits[k]
              /\ h.id = k
              /\ TouchedPeriods(h) = (last - n + 1)..last
              /\ \A p \in TouchedPeriods(h) :
                    Tally(h.id, h.frequency, p) = h.periodicity
              /\ get_streaks(h.id)
                    = [current_streak |-> n, longest_streak |-> n]
    /\ \A i \in DOMAIN completions : completions[i].habit_id \in 1..5

\* reset_to_default and Database() on an empty file leave the store that
\* the fixture generates from nothing at the current instant.
ResetGivesDefaultStore ==
    database = generate_fixture_data(empty_database) => DefaultStore

\* The default store on a day that is not a Monday, the user's own habit
\* gone with the reset.
DefaultStoreMidweek ==
    /\ DefaultStore
    /\ weekday(now) # 0
    /\ habits_seq = 5

(***************************************************************************)
(* C18.  The add command adds a habit: with a name not in use and a        *)
(* periodicity of at least 1 the habit is stored, load_habits then has a   *)
(* habit of that name, frequency and periodicity, and the reported ID is   *)
(* its id; with a name in use or a periodicity below 1 no habit is stored. *)
(***************************************************************************)
Stored(hs, name) == {i \in DOMAIN hs : hs[i].name = name}

AddCommandStoresHabit ==
    [][\A name \in CliNames, frequency \in SupportedFrequencies,
          periodicity \in CliPeriodicities :
          CliAdd(name, frequency, periodicity) =>
             IF Stored(habits, name) = {} /\ periodicity >= 1
             THEN \E i \in Stored(habits', name) :
                     /\ habits'[i].frequency = frequency
                     /\ habits'[i].periodicity = periodicity
                     /\ result'.value = habits'[i].id
             ELSE Stored(habits', name) = Stored(habits, name)
      ]_vars

(***************************************************************************)
(* C19.  recent_completions_fp(completions, n) returns the min(n, length)  *)
(* latest timestamps, newest first, duplicates kept, whatever the order    *)
(* of its input; recent_completions(habit_id, n) returns the same over     *)
(* the habit's distinct timestamps.                                        *)
(***************************************************************************)
RecentCounts == 0..(MaxHistory + 1)

Occurrences(s, v) == Cardinality({i \in DOMAIN s : s[i] = v})

\* r holds n items of the values with multiplicity count(v), none left
\* out that is later than one it holds, the items in the order given.
LatestOf(r, values, count(_), n, InOrder(_, _)) ==
    /\ Len(r) = n
    /\ \A i \in 1..(Len(r) - 1) : InOrder(r[i], r[i + 1])
    /\ \A i \in DOMAIN r : r[i] \in values
    /\ \A v \in values :
          /\ Occurrences(r, v) <= count(v)
          /\ r # <<>> /\ v > r[Len(r)] => Occurrences(r, v) = count(v)

RecentAreLatestNewestFirst ==
    \A h \in DOMAIN habits : \A n \in RecentCounts :
        LET cs == load_completions(habits[h].id)
            distinct == {cs[i] : i \in DOMAIN cs}
            size == Cardinality(distinct)
        IN  /\ LatestOf(recent_completions_fp(cs, n), distinct,
                        LAMBDA v : Occurrences(cs, v),
                        IF n <= Len(cs) THEN n ELSE Len(cs),
                        LAMBDA a, b : a >= b)
            /\ LatestOf(recent_completions(habits[h].id, n), distinct,
                        LAMBDA v : 1,
                        IF n <= size THEN n ELSE size,
                        LAMBDA a, b : a > b)

\* Three completions, two at one instant, stored oldest first: the two
\* latest of them are the duplicates, the two latest distinct ones are not.
RecentOfDuplicatesStoredAscending ==
    \E h \in DOMAIN habits :
        LET cs == load_completions(habits[h].id)
            r == recent_completions_fp(cs, 2)
            u == recent_completions(habits[h].id, 2)
        IN  /\ Len(cs) = 3
            /\ cs[1] < cs[2]
            /\ r[1] = r[2]
            /\ u[1] > u[2]

(***************************************************************************)
(* C20.  longest_streak_all returns the greatest longest_streak of all     *)
(* habits together with the names of exactly the habits whose longest      *)
(* streak is that greatest value, in load order; with no habits it         *)
(* returns an empty list and 0.                                            *)
(***************************************************************************)
LongestOf(k) == get_streaks(habits[k].id).longest_streak

Greatest == CHOOSE b \in {0} \cup {LongestOf(k) : k \in DOMAIN habits} :
                \A k \in DOMAIN habits : LongestOf(k) <= b

LongestStreakAllNamesTheBest ==
    LET best == SelectSeq([k \in DOMAIN habits |-> k],
                          LAMBDA k : LongestOf(k) = Greatest)
        r == longest_streak_all
    IN  /\ r.longest_streak = Greatest
        /\ r.habits = [j \in DOMAIN best |-> habits[best[j]].name]
        /\ habits = <<>> => r = [habits |-> <<>>, longest_streak |-> 0]

\* The overview has named the second of two differently named habits only:
\* its streak is the longer one.
LaterHabitIsTheBest ==
    /\ result.op = "longest_streak_all"
    /\ Len(habits) = 2
    /\ habits[1].name # habits[2].name
    /\ result.value.habits = <<habits[2].name>>
    /\ LongestOf(1) < LongestOf(2)
    /\ RowsOf(habits[1].id) # {}
    /\ result.value = longest_streak_all

(***************************************************************************)
(* C21.  For every habit, completion history and current time get_streaks  *)
(* returns a current_streak that is at most the longest_streak.            *)
(***************************************************************************)
CurrentStreakAtMostLongest ==
    \A i \in DOMAIN habits :
        get_streaks(habits[i].id).current_streak
            <= get_streaks(habits[i].id).longest_streak

\* An earlier run of two periods and a current run of one.
CurrentRunShorterThanLongest ==
    \E i \in DOMAIN habits :
        /\ get_streaks(habits[i].id).current_streak = 1
        /\ get_streaks(habits[i].id).longest_streak = 2

(***************************************************************************)
(* C22.  The two longest-streak implementations agree: for a daily or      *)
(* weekly habit of periodicity at least 1 and any list of completions,     *)
(* longest_streak_for_habit_fp gives what get_streaks gives as             *)
(* longest_streak over the same completions.                               *)
(***************************************************************************)
LongestStreakImplementationsAgree ==
    \A i \in DOMAIN habits :
        Supported(habits[i]) /\ habits[i].periodicity >= 1 =>
            longest_streak_for_habit_fp(habits[i],
                                        load_completions(habits[i].id))
                = get_streaks(habits[i].id).longest_streak

\* A weekly habit done on different weekdays of two adjacent weeks, stored
\* latest first: both implementations count a streak of 2.
BothCountTwoAdjacentWeeks ==
    \E i \in DOMAIN habits :
        LET cs == load_completions(habits[i].id)
        IN  /\ habits[i].frequency = "weekly"
            /\ habits[i].periodicity = 1
            /\ Len(cs) = 2
            /\ cs[1] > cs[2]
            /\ weekday(cs[1]) # weekday(cs[2])
            /\ longest_streak_for_habit_fp(habits[i], cs) = 2
            /\ get_streaks(habits[i].id).longest_streak = 2

(***************************************************************************)
(* C23.  At a fixed current time one more completion of a habit never      *)
(* lowers its longest_streak or its current_streak, and the streaks do     *)
(* not depend on the order the completions were stored in.                 *)
(***************************************************************************)
Reordered(loaded, p) == [j \in DOMAIN loaded |-> loaded[p[j]]]

\* The instants a completion may be recorded at.
Recordable == {now - timedelta(days) : days \in HistoryOffsets}

StreaksGrowAndIgnoreOrder ==
    \A i \in DOMAIN habits :
        LET loaded == load_completions(habits[i].id)
            streaks == get_streaks(habits[i].id)
        IN  /\ \A p \in Permutations(DOMAIN loaded) :
                  get_streaks_from(habits[i].id, Reordered(loaded, p))
                      = streaks
            /\ \A c \in Recordable :
                  LET more == get_streaks_from(habits[i].id,
                                               Append(loaded, c))
                  IN  /\ more.current_streak >= streaks.current_streak
                      /\ more.longest_streak >= streaks.longest_streak

\* The day between two done days was stored last: it joined them into a
\* streak of 3 ending today.
GapFilledLast ==
    \E i \in DOMAIN habits :
        /\ habits[i].frequency = "daily"
        /\ habits[i].periodicity = 1
        /\ Len(completions) = 3
        /\ DayOf(1) = Today
        /\ DayOf(2) = Today - 2
        /\ DayOf(3) = Today - 1
        /\ get_streaks(habits[i].id)
              = [current_streak |-> 3, longest_streak |-> 3]

(***************************************************************************)
(* C24.  The current-period counts agree: for a daily or weekly habit the  *)
(* count can_mark_performed compares with the periodicity is what          *)
(* completions_in_current_period returns and what period_summary of the    *)
(* habit's frequency counts, so a habit that can no longer be marked in    *)
(* this period is classified as completed.                                 *)
(***************************************************************************)
ClassifiedCompleted(habit) ==
    summarize(<<habit>>, habit.frequency, [completed |-> 0, missed |-> 0])
        = [completed |-> 1, missed |-> 0]

CurrentPeriodCountsAgree ==
    \A i \in DOMAIN habits :
        Supported(habits[i]) =>
            /\ can_mark_performed(habits[i])
                  <=> completions_in_current_period(habits[i].id)
                         < habits[i].periodicity
            /\ ClassifiedCompleted(habits[i])
                  <=> completions_in_current_period(habits[i].id)
                         >= habits[i].periodicity
            /\ ~can_mark_performed(habits[i])
                  => ClassifiedCompleted(habits[i])

====
